---------------------------- MODULE Spec2Model ----------------------------
(***************************************************************************)
(* Model of scraper.py (DaCasio/Koalitionsberechnung): poll table ->       *)
(* per-party average -> five-percent filter -> seat distribution ->        *)
(* majority coalitions -> LaMetric frames -> data.json.                    *)
(*                                                                         *)
(* Conventions.                                                            *)
(*  - A text (Python str) is a sequence of one-character strings.  The two *)
(*    letters and the dash that are not ASCII are the tokens UUML (U with  *)
(*    diaeresis), AUML (A with diaeresis) and NDASH (U+2013).              *)
(*  - A Python dict is a sequence of records [k |-> key, v |-> value] in   *)
(*    insertion order (dicts iterate in insertion order).                  *)
(*  - A percentage is an integer number of tenths (30.0 is 300): every     *)
(*    average leaves fetch_poll_data rounded to one decimal.               *)
(*  - Binary floating point: where the code rounds or compares a quotient  *)
(*    that lies exactly on the boundary (x.5 for round, exactly 5 for the  *)
(*    threshold), the float result can fall on either side; the model      *)
(*    takes the side as an input of the step.  Away from the boundary the  *)
(*    float result agrees with exact arithmetic.                           *)
(***************************************************************************)
EXTENDS Integers, Sequences, FiniteSets, TLC

VARIABLES
    pc,                 \* position in the run
    table,              \* the parsed HTML table handed to fetch_poll_data
    poll_data,          \* result of fetch_poll_data
    filtered_data,      \* result of filter_parties_by_threshold
    seat_distribution,  \* result of calculate_seat_distribution
    coalitions,         \* result of calculate_majority_coalitions
    lametric_json,      \* result of format_for_lametric
    icon_warning,       \* format_for_lametric took its "not enough icons" branch
    data_json,          \* data.json: NoFile, or the one object written
    error               \* the exception the run caught, "none" otherwise

vars == <<pc, table, poll_data, filtered_data, seat_distribution, coalitions,
          lametric_json, icon_warning, data_json, error>>

(***************************************************************************)
(* Bounds of the model.                                                    *)
(***************************************************************************)
\* largest number of parties in a poll-data mapping given to the pipeline
MaxParties == 3
\* largest number of parties in a seat distribution given to the enumerator
MaxSeatParties == 5
\* largest number of party rows present in the HTML table
MaxRows == 1
\* number of institutes (columns) of the HTML table
NumInstitutes == 3

(***************************************************************************)
(* Characters and texts.                                                   *)
(***************************************************************************)
UUML == "U_uml"
AUML == "A_uml"
NDASH == "ndash"

Digits == <<"0", "1", "2", "3", "4", "5", "6", "7", "8", "9">>

\* data.json: the objects written to it, none before save_to_json
NoFile == <<>>

\* the party names of PARTIES_CONFIG
CDU_CSU == <<"C", "D", "U", "/", "C", "S", "U">>
SPD == <<"S", "P", "D">>
GRUENE == <<"G", "R", UUML, "N", "E">>
FDP == <<"F", "D", "P">>
DIE_LINKE == <<"D", "I", "E", " ", "L", "I", "N", "K", "E">>
AfD == <<"A", "f", "D">>
FREIE_WAEHLER == <<"F", "R", "E", "I", "E", " ", "W", AUML, "H", "L", "E", "R">>
Sonstige == <<"S", "o", "n", "s", "t", "i", "g", "e">>

PARTIES_CONFIG ==
    << [name |-> CDU_CSU, id |-> "cdu"],
       [name |-> SPD, id |-> "spd"],
       [name |-> GRUENE, id |-> "gru"],
       [name |-> FDP, id |-> "fdp"],
       [name |-> DIE_LINKE, id |-> "lin"],
       [name |-> AfD, id |-> "afd"],
       [name |-> FREIE_WAEHLER, id |-> "frw"],
       [name |-> Sonstige, id |-> "son"] >>

ICON_IDS ==
    << 16880, 16881, 16882, 16883, 16884, 16885, 16886, 16887,
       16888, 16889, 16879, 16890, 16891, 16892, 16893, 16894,
       16895, 16896, 16898, 16899, 16900, 16901, 16905, 16906,
       16907, 16908, 16909, 16910, 16911, 16912, 16913 >>

TOTAL_SEATS == 630
\* the majority without the + 1
MAJORITY_SEATS_Half == TOTAL_SEATS \div 2
MAJORITY_SEATS == TOTAL_SEATS \div 2 + 1

(***************************************************************************)
(* Python built-ins used by the code.                                      *)
(***************************************************************************)
Range(s) == {s[i] : i \in 1..Len(s)}

Min(a, b) == IF a <= b THEN a ELSE b

\* dict.keys(), dict.values(), dict[key]
Keys(d) == [i \in 1..Len(d) |-> d[i].k]
Values(d) == [i \in 1..Len(d) |-> d[i].v]
Lookup(d, key) == d[CHOOSE i \in 1..Len(d) : d[i].k = key].v

\* sum(numbers)
RECURSIVE Sum(_)
Sum(s) == IF s = <<>> THEN 0 ELSE Head(s) + Sum(Tail(s))

\* str(n) for an integer n >= 0
RECURSIVE Str(_)
Str(n) == IF n < 10 THEN <<Digits[n + 1]>>
          ELSE Str(n \div 10) \o <<Digits[(n % 10) + 1]>>

\* sep.join(texts)
RECURSIVE Join(_, _)
Join(sep, texts) ==
    IF texts = <<>> THEN <<>>
    ELSE IF Len(texts) = 1 THEN texts[1]
    ELSE texts[1] \o sep \o Join(sep, Tail(texts))

\* text[i:i+Len(old)] == old, for a 1-based position i
MatchAt(text, i, old) ==
    /\ i + Len(old) - 1 <= Len(text)
    /\ SubSeq(text, i, i + Len(old) - 1) = old

\* text.replace(old, new) for a non-empty old: left to right, non-overlapping
RECURSIVE Replace(_, _, _)
Replace(text, old, new) ==
    IF text = <<>> THEN <<>>
    ELSE IF MatchAt(text, 1, old)
         THEN new \o Replace(SubSeq(text, Len(old) + 1, Len(text)), old, new)
         ELSE <<Head(text)>> \o Replace(Tail(text), old, new)

\* round(num/den) of a non-negative quotient; tieUp is the side the float
\* result falls on when the quotient is exactly x.5
Round(num, den, tieUp) ==
    LET q == num \div den
        r == num % den
    IN  IF 2 * r > den THEN q + 1
        ELSE IF 2 * r < den THEN q
        ELSE IF tieUp THEN q + 1 ELSE q

\* itertools.combinations(s, r): the r-element subsequences of s in
\* lexicographic order of their positions
RECURSIVE combinations(_, _)
combinations(s, r) ==
    IF r = 0 THEN << <<>> >>
    ELSE IF Len(s) < r THEN <<>>
    ELSE LET with == combinations(Tail(s), r - 1)
             without == combinations(Tail(s), r)
         IN  [i \in 1..Len(with) |-> <<Head(s)>> \o with[i]] \o without

(***************************************************************************)
(* fetch_poll_data.  The table is what BeautifulSoup found: NoTable when   *)
(* there is no table of class wilko, otherwise the texts of the header's   *)
(* spans of class li and, per row id, the texts of the row's td cells.     *)
(***************************************************************************)
\* soup.find("table", ...) returned None
NoTable == [found |-> FALSE, spans |-> <<>>, rows |-> <<>>]
ValueError == -1

IsDigit(c) == c \in Range(Digits)
DigitValue(c) == (CHOOSE i \in 1..Len(Digits) : Digits[i] = c) - 1

\* the number a non-empty text of digits denotes
RECURSIVE NumberOf(_)
NumberOf(digs) ==
    IF digs = <<>> THEN 0
    ELSE 10 * NumberOf(SubSeq(digs, 1, Len(digs) - 1)) + DigitValue(digs[Len(digs)])

AllDigits(text) == \A i \in 1..Len(text) : IsDigit(text[i])

\* text.strip()
RECURSIVE Strip(_)
Strip(text) ==
    IF text = <<>> THEN <<>>
    ELSE IF Head(text) = " " THEN Strip(Tail(text))
    ELSE IF text[Len(text)] = " " THEN Strip(SubSeq(text, 1, Len(text) - 1))
    ELSE text

\* float(text) in tenths, ValueError when Python raises it.  Covers the
\* table's number format: digits with an optional point and at most one
\* fractional digit, surrounded by optional blanks.
float(text) ==
    LET t == Strip(text)
        dots == {i \in 1..Len(t) : t[i] = "."}
    IN  IF t = <<>> THEN ValueError
        ELSE IF dots = {}
             THEN IF AllDigits(t) THEN 10 * NumberOf(t) ELSE ValueError
        ELSE LET d == CHOOSE i \in dots : \A j \in dots : i <= j
                 whole == SubSeq(t, 1, d - 1)
                 frac == SubSeq(t, d + 1, Len(t))
             IN  IF /\ AllDigits(whole) /\ AllDigits(frac)
                    /\ Len(whole) + Len(frac) > 0 /\ Len(frac) <= 1
                 THEN 10 * NumberOf(whole) + NumberOf(frac)
                 ELSE ValueError

\* cell.text.strip().replace('%','').replace(',', '.').replace(NDASH, '0')
CleanCell(text) ==
    Replace(Replace(Replace(Strip(text), <<"%">>, <<>>), <<",">>, <<".">>),
            <<NDASH>>, <<"0">>)

\* the value appended for one cell: float(text), 0.0 on ValueError
CellValue(text) ==
    IF float(CleanCell(text)) = ValueError THEN 0 ELSE float(CleanCell(text))

\* institutes: the header's spans without the first
Institutes(tbl) == Tail(tbl.spans)

\* row.find_all("td")[1:len(institutes)+1]
RowCells(tbl, id) ==
    LET tds == tbl.rows[id]
    IN  SubSeq(tds, 2, Min(Len(tds), Len(Institutes(tbl)) + 1))

RowValues(tbl, id) ==
    [i \in 1..Len(RowCells(tbl, id)) |-> CellValue(RowCells(tbl, id)[i])]

\* the loop over PARTIES_CONFIG from position p on: a party gets its values
\* when its row exists and has one value per institute
RECURSIVE CollectRows(_, _)
CollectRows(tbl, p) ==
    IF p > Len(PARTIES_CONFIG) THEN <<>>
    ELSE (IF /\ PARTIES_CONFIG[p].id \in DOMAIN tbl.rows
             /\ Len(RowValues(tbl, PARTIES_CONFIG[p].id)) = Len(Institutes(tbl))
          THEN << [k |-> PARTIES_CONFIG[p].name,
                   v |-> RowValues(tbl, PARTIES_CONFIG[p].id)] >>
          ELSE <<>>)
         \o CollectRows(tbl, p + 1)

\* df.mean().round(1).to_dict(): per party the mean of its values, rounded
\* to one decimal
fetch_poll_data(tbl, ties) ==
    LET data == CollectRows(tbl, 1)
    IN  [i \in 1..Len(data) |->
            [k |-> data[i].k,
             v |-> Round(Sum(data[i].v), Len(data[i].v), ties[i])]]

(***************************************************************************)
(* filter_parties_by_threshold.                                            *)
(***************************************************************************)
\* the threshold applied to the value itself instead of the share
MeetsThreshold_Absolute(votes, total_votes, tieKeep) == votes >= 50

\* (votes / total_votes)*100 >= 5; tieKeep is the side the float comparison
\* falls on when the share is exactly 5
MeetsThreshold(votes, total_votes, tieKeep) ==
    \/ 100 * votes > 5 * total_votes
    \/ 100 * votes = 5 * total_votes /\ tieKeep

\* the division votes / total_votes raises ZeroDivisionError for the first
\* item of a non-empty mapping whose values sum to 0.0
FilterRaises(data) == Len(data) > 0 /\ Sum(Values(data)) = 0

RECURSIVE SelectItems(_, _, _)
SelectItems(data, total_votes, ties) ==
    IF data = <<>> THEN <<>>
    ELSE (IF MeetsThreshold(Head(data).v, total_votes, Head(ties))
          THEN <<Head(data)>> ELSE <<>>)
         \o SelectItems(Tail(data), total_votes, Tail(ties))

filter_parties_by_threshold(data, ties) ==
    SelectItems(data, Sum(Values(data)), ties)

(***************************************************************************)
(* calculate_seat_distribution.                                            *)
(***************************************************************************)
SeatsRaises(data) == Len(data) > 0 /\ Sum(Values(data)) = 0

calculate_seat_distribution(data, ties) ==
    LET total_votes == Sum(Values(data))
    IN  [i \in 1..Len(data) |->
            [k |-> data[i].k,
             v |-> Round(data[i].v * TOTAL_SEATS, total_votes, ties[i])]]

(***************************************************************************)
(* calculate_majority_coalitions.                                          *)
(***************************************************************************)
\* sum(seat_distribution[p] for p in combo)
ComboSeats(dist, combo) == Sum([i \in 1..Len(combo) |-> Lookup(dist, combo[i])])

\* the inner loop: the combinations, in order, that reach MAJORITY_SEATS
RECURSIVE MajorityOf(_, _)
MajorityOf(dist, combos) ==
    IF combos = <<>> THEN <<>>
    ELSE (IF ComboSeats(dist, Head(combos)) >= MAJORITY_SEATS
          THEN << [parties |-> Head(combos),
                   seats |-> ComboSeats(dist, Head(combos))] >>
          ELSE <<>>)
         \o MajorityOf(dist, Tail(combos))

\* the outer loop: r from first to len(parties)
RECURSIVE CoalitionsFrom(_, _)
CoalitionsFrom(dist, r) ==
    IF r > Len(dist) THEN <<>>
    ELSE MajorityOf(dist, combinations(Keys(dist), r))
         \o CoalitionsFrom(dist, r + 1)

\* the enumeration started at single parties
calculate_majority_coalitions_From1(dist) == CoalitionsFrom(dist, 1)

calculate_majority_coalitions(dist) == CoalitionsFrom(dist, 2)

(***************************************************************************)
(* split_text and format_for_lametric.                                     *)
(***************************************************************************)
\* the segments cut at 8 characters
RECURSIVE Chunks_Eight(_)
Chunks_Eight(text) ==
    IF text = <<>> THEN <<>>
    ELSE <<SubSeq(text, 1, Min(8, Len(text)))>>
         \o Chunks_Eight(SubSeq(text, 9, Len(text)))

\* [text[i:i+7] for i in range(0, len(text), 7)]
RECURSIVE Chunks(_)
Chunks(text) ==
    IF text = <<>> THEN <<>>
    ELSE <<SubSeq(text, 1, Min(7, Len(text)))>>
         \o Chunks(SubSeq(text, 8, Len(text)))

split_text(text) ==
    Chunks(Replace(Replace(Replace(text,
        GRUENE, <<"G", "R", UUML, "N">>),
        DIE_LINKE, <<"L", "I", "N", "K", "E">>),
        Sonstige, <<"S", "o", "n", "s", "t">>))

KeineMehrh == <<"K", "e", "i", "n", "e", " ", "M", "e", "h", "r", "h", ".">>
Gesamt == <<"G", "e", "s", "a", "m", "t", ":">>
Sitze == <<" ", "S", "i", "t", "z", "e">>

\* the frames one coalition adds, all with icon str(ICON_IDS[idx])
CoalitionFrames(coalition, idx) ==
    LET icon == Str(ICON_IDS[idx + 1])
        segments == split_text(Join(<<" ", "+", " ">>, coalition.parties))
    IN  [i \in 1..Len(segments) |-> [text |-> segments[i], icon |-> icon]]
        \o << [text |-> Gesamt, icon |-> icon],
              [text |-> Str(coalition.seats) \o Sitze, icon |-> icon] >>

\* the cut taken one coalition later
FirstTen_Eleven(cs) == SubSeq(cs, 1, Min(11, Len(cs)))

\* coalitions[:10]
FirstTen(cs) == SubSeq(cs, 1, Min(10, Len(cs)))

\* the loop over enumerate(shown) from index idx (0-based) on, frames being
\* the list built so far; the icon check breaks out of the loop
RECURSIVE FramesLoop(_, _, _)
FramesLoop(shown, idx, frames) ==
    IF idx >= Len(shown) THEN [frames |-> frames, warned |-> FALSE]
    ELSE IF idx >= Len(ICON_IDS) THEN [frames |-> frames, warned |-> TRUE]
    ELSE FramesLoop(shown, idx + 1, frames \o CoalitionFrames(shown[idx + 1], idx))

\* the returned object and whether the icon warning was logged
format_for_lametric(cs) ==
    IF cs = <<>>
    THEN [frames |-> << [text |-> KeineMehrh, icon |-> Str(ICON_IDS[1])] >>,
          warned |-> FALSE]
    ELSE FramesLoop(FirstTen(cs), 0, <<>>)

(***************************************************************************)
(* The inputs the runs are started with.                                   *)
(***************************************************************************)
\* averages in tenths: 0.0, 4.9, 5.0, 47.5
PollValues == {0, 49, 50, 475}
\* seat counts
SeatValues == {105, 158}

RECURSIVE Ascending(_)
Ascending(S) ==
    IF S = {} THEN <<>>
    ELSE LET m == CHOOSE x \in S : \A y \in S : x <= y
         IN  <<m>> \o Ascending(S \ {m})

\* the dict with the parties at the positions P of PARTIES_CONFIG, inserted
\* in the order of PARTIES_CONFIG, party at position p with value f[p]
DictOf(P, f) ==
    LET idx == Ascending(P)
    IN  [i \in 1..Len(idx) |-> [k |-> PARTIES_CONFIG[idx[i]].name, v |-> f[idx[i]]]]

\* every dict over at most max of the configured parties with values in vals
Dicts(max, vals) ==
    UNION { {DictOf(P, f) : f \in [P -> vals]} :
            P \in {Q \in SUBSET (1..Len(PARTIES_CONFIG)) : Cardinality(Q) <= max} }

\* cell texts: 12,0 %   14,0 %   the dash placeholder   an unparseable text
Cell12 == <<"1", "2", ",", "0", " ", "%">>
Cell14 == <<"1", "4", ",", "0", " ", "%">>
CellDash == <<NDASH>>
CellText == <<"k", ".", "A", ".">>
CellTexts == {Cell12, Cell14, CellDash, CellText}

\* the header's spans of class li: a leading one, then one per institute
HeaderSpans(n) == [i \in 1..(n + 1) |-> "span"]

\* the td texts of a row: the party's label cell, then one cell per
\* institute or one cell too few
RowTexts(n) ==
    UNION { {<<"label">> \o cells : cells \in [1..m -> CellTexts]} :
            m \in {n - 1, n} }

PartyIds == {PARTIES_CONFIG[p].id : p \in 1..Len(PARTIES_CONFIG)}

\* no table, or a table of n institutes with rows for at most max parties
Tables(max, n) ==
    {NoTable} \cup
    UNION { {[found |-> TRUE, spans |-> HeaderSpans(n), rows |-> r] :
                r \in [ids -> RowTexts(n)]} :
            ids \in {I \in SUBSET PartyIds : Cardinality(I) <= max} }

(***************************************************************************)
(* The main program, one action per step of its try block.                 *)
(***************************************************************************)
\* Schritt 1: poll_data = fetch_poll_data()
Fetch ==
    /\ pc = "fetch"
    /\ \E ties \in [1..Len(CollectRows(table, 1)) -> BOOLEAN] :
          IF ~table.found
          THEN /\ pc' = "failed"
               /\ error' = "ValueError"
               /\ UNCHANGED poll_data
          ELSE /\ pc' = "filter"
               /\ poll_data' = fetch_poll_data(table, ties)
               /\ UNCHANGED error
    /\ UNCHANGED <<table, filtered_data, seat_distribution, coalitions,
                   lametric_json, icon_warning, data_json>>

\* Schritt 2: filtered_data = filter_parties_by_threshold(poll_data)
Filter ==
    /\ pc = "filter"
    /\ \E ties \in [1..Len(poll_data) -> BOOLEAN] :
          IF FilterRaises(poll_data)
          THEN /\ pc' = "failed"
               /\ error' = "ZeroDivisionError"
               /\ UNCHANGED filtered_data
          ELSE /\ pc' = "seats"
               /\ filtered_data' = filter_parties_by_threshold(poll_data, ties)
               /\ UNCHANGED error
    /\ UNCHANGED <<table, poll_data, seat_distribution, coalitions,
                   lametric_json, icon_warning, data_json>>

\* Schritt 3: seat_distribution = calculate_seat_distribution(filtered_data)
Seats ==
    /\ pc = "seats"
    /\ \E ties \in [1..Len(filtered_data) -> BOOLEAN] :
          IF SeatsRaises(filtered_data)
          THEN /\ pc' = "failed"
               /\ error' = "ZeroDivisionError"
               /\ UNCHANGED seat_distribution
          ELSE /\ pc' = "coalitions"
               /\ seat_distribution' = calculate_seat_distribution(filtered_data, ties)
               /\ UNCHANGED error
    /\ UNCHANGED <<table, poll_data, filtered_data, coalitions,
                   lametric_json, icon_warning, data_json>>

\* Schritt 4: coalitions = calculate_majority_coalitions(seat_distribution)
Coalitions ==
    /\ pc = "coalitions"
    /\ coalitions' = calculate_majority_coalitions(seat_distribution)
    /\ pc' = "format"
    /\ UNCHANGED <<table, poll_data, filtered_data, seat_distribution,
                   lametric_json, icon_warning, data_json, error>>

\* Schritt 5: lametric_json = format_for_lametric(coalitions)
Format ==
    /\ pc = "format"
    /\ \E result \in {format_for_lametric(coalitions)} :
          /\ lametric_json' = [frames |-> result.frames]
          /\ icon_warning' = result.warned
    /\ pc' = "save"
    /\ UNCHANGED <<table, poll_data, filtered_data, seat_distribution,
                   coalitions, data_json, error>>

\* save_to_json(lametric_json)
Save ==
    /\ pc = "save"
    /\ data_json' = <<lametric_json>>
    /\ pc' = "done"
    /\ UNCHANGED <<table, poll_data, filtered_data, seat_distribution,
                   coalitions, lametric_json, icon_warning, error>>

(***************************************************************************)
(* Spec: the run from the averages fetch_poll_data returned.               *)
(***************************************************************************)
Init ==
    /\ pc = "filter"
    /\ poll_data \in Dicts(MaxParties, PollValues)
    /\ table = NoTable
    /\ filtered_data = <<>>
    /\ seat_distribution = <<>>
    /\ coalitions = <<>>
    /\ lametric_json = [frames |-> <<>>]
    /\ icon_warning = FALSE
    /\ data_json = NoFile
    /\ error = "none"

Next == Filter \/ Seats \/ Coalitions \/ Format \/ Save

Spec == Init /\ [][Next]_vars

(***************************************************************************)
(* SpecCoalitions: the enumerator and the formatter from a seat            *)
(* distribution.                                                           *)
(***************************************************************************)
InitCoalitions ==
    /\ pc = "coalitions"
    /\ seat_distribution \in Dicts(MaxSeatParties, SeatValues)
    /\ table = NoTable
    /\ poll_data = <<>>
    /\ filtered_data = <<>>
    /\ coalitions = <<>>
    /\ lametric_json = [frames |-> <<>>]
    /\ icon_warning = FALSE
    /\ data_json = NoFile
    /\ error = "none"

NextCoalitions == Coalitions \/ Format \/ Save

SpecCoalitions == InitCoalitions /\ [][NextCoalitions]_vars

(***************************************************************************)
(* SpecFetch: fetch_poll_data on a parsed table.                           *)
(***************************************************************************)
InitFetch ==
    /\ pc = "fetch"
    /\ table \in Tables(MaxRows, NumInstitutes)
    /\ poll_data = <<>>
    /\ filtered_data = <<>>
    /\ seat_distribution = <<>>
    /\ coalitions = <<>>
    /\ lametric_json = [frames |-> <<>>]
    /\ icon_warning = FALSE
    /\ data_json = NoFile
    /\ error = "none"

NextFetch == Fetch

SpecFetch == InitFetch /\ [][NextFetch]_vars

(***************************************************************************)
(* Notions the properties are stated with.                                 *)
(***************************************************************************)
KeySet(d) == {d[i].k : i \in 1..Len(d)}

\* the seats of a set of parties of the seat distribution
RECURSIVE SeatSum(_)
SeatSum(S) ==
    IF S = {} THEN 0
    ELSE LET p == CHOOSE x \in S : TRUE
         IN  Lookup(seat_distribution, p) + SeatSum(S \ {p})

AfterFilter == pc \in {"seats", "coalitions", "format", "save", "done"}
AfterCoalitions == pc \in {"format", "save", "done"}
AfterFormat == pc \in {"save", "done"}

\* the positions of the "Gesamt:" frames, ascending
GesamtAt == Ascending({i \in 1..Len(lametric_json.frames) :
                          lametric_json.frames[i].text = Gesamt})

NoMajorityFrames == << [text |-> KeineMehrh, icon |-> Str(ICON_IDS[1])] >>

\* the name a party is displayed with
Shown(name) ==
    IF name = GRUENE THEN <<"G", "R", UUML, "N">>
    ELSE IF name = DIE_LINKE THEN <<"L", "I", "N", "K", "E">>
    ELSE IF name = Sonstige THEN <<"S", "o", "n", "s", "t">>
    ELSE name

RECURSIVE Concat(_)
Concat(texts) == IF texts = <<>> THEN <<>> ELSE Head(texts) \o Concat(Tail(texts))

(***************************************************************************)
(* C1: calculate_majority_coalitions returns exactly the subsets of the    *)
(* distribution's parties with at least 2 members and a seat sum of at     *)
(* least 316: every returned coalition has at least 2 distinct parties of  *)
(* the distribution, carries the sum of their seats and reaches 316, and   *)
(* every such subset is returned exactly once.                             *)
(***************************************************************************)
C1_ExactlyMajoritySubsets ==
    AfterCoalitions =>
        /\ \A i \in 1..Len(coalitions) :
              LET c == coalitions[i]
              IN  /\ Len(c.parties) >= 2
                  /\ Cardinality(Range(c.parties)) = Len(c.parties)
                  /\ Range(c.parties) \subseteq KeySet(seat_distribution)
                  /\ c.seats = SeatSum(Range(c.parties))
                  /\ c.seats >= 316
        /\ \A S \in SUBSET KeySet(seat_distribution) :
              (Cardinality(S) >= 2 /\ SeatSum(S) >= 316) =>
                 Cardinality({i \in 1..Len(coalitions) :
                                 Range(coalitions[i].parties) = S}) = 1

\* some subset is returned and some subset of 2 or more parties falls one
\* seat short
C1_Witness ==
    /\ AfterCoalitions
    /\ coalitions # <<>>
    /\ \E S \in SUBSET KeySet(seat_distribution) :
          Cardinality(S) >= 2 /\ SeatSum(S) = 315

(***************************************************************************)
(* C2: the returned list is ordered by ascending party count and, among    *)
(* coalitions of the same party count, by descending seat sum.             *)
(***************************************************************************)
C2_OrderedByCountThenSeats ==
    AfterCoalitions =>
        \A i \in 1..(Len(coalitions) - 1) :
            LET c1 == coalitions[i]
                c2 == coalitions[i + 1]
            IN  \/ Len(c1.parties) < Len(c2.parties)
                \/ Len(c1.parties) = Len(c2.parties) /\ c1.seats >= c2.seats

(***************************************************************************)
(* C3: a party whose row holds 12.0, an absent cell (the dash placeholder  *)
(* or an unparseable text) and 14.0 gets the average 13.0 from             *)
(* fetch_poll_data.                                                        *)
(***************************************************************************)
C3_AbsentCellsExcluded ==
    (pc = "filter" /\ table.found) =>
        \A p \in 1..Len(PARTIES_CONFIG) :
            LET id == PARTIES_CONFIG[p].id
            IN  (/\ id \in DOMAIN table.rows
                 /\ Len(table.rows[id]) = 4
                 /\ table.rows[id][2] = Cell12
                 /\ table.rows[id][3] \in {CellDash, CellText}
                 /\ table.rows[id][4] = Cell14)
                => /\ PARTIES_CONFIG[p].name \in KeySet(poll_data)
                   /\ Lookup(poll_data, PARTIES_CONFIG[p].name) = 130

(***************************************************************************)
(* C4 as stated: a party whose average is exactly 5.0 is kept by           *)
(* filter_parties_by_threshold and a party at 4.9 is dropped, whatever the *)
(* other parties' values are.                                              *)
(***************************************************************************)
C4_Original ==
    AfterFilter =>
        \A i \in 1..Len(poll_data) :
            /\ poll_data[i].v = 50 => poll_data[i].k \in KeySet(filtered_data)
            /\ poll_data[i].v = 49 => poll_data[i].k \notin KeySet(filtered_data)

(***************************************************************************)
(* C4 amended: the comparison is made on the party's share of the sum of   *)
(* all averages.  A party is kept, with its value, when its value is above *)
(* 5 percent of the sum and dropped when it is below; so a party at 5.0 is *)
(* kept whenever the averages sum to less than 100.0 and a party at 4.9 is *)
(* dropped whenever they sum to more than 98.0.                            *)
(***************************************************************************)
C4_Amended ==
    AfterFilter =>
        LET total == Sum(Values(poll_data))
        IN  \A i \in 1..Len(poll_data) :
              LET v == poll_data[i].v
                  kept == \E j \in 1..Len(filtered_data) : filtered_data[j] = poll_data[i]
              IN  /\ 100 * v > 5 * total => kept
                  /\ 100 * v < 5 * total => poll_data[i].k \notin KeySet(filtered_data)
                  /\ (v = 50 /\ total < 1000) => kept
                  /\ (v = 49 /\ total > 980) => poll_data[i].k \notin KeySet(filtered_data)

\* a party at 4.9 is dropped because the averages sum to more than 98.0
C4_Witness ==
    /\ AfterFilter
    /\ Sum(Values(poll_data)) > 980
    /\ filtered_data # <<>>
    /\ \E i \in 1..Len(poll_data) :
          poll_data[i].v = 49 /\ poll_data[i].k \notin KeySet(filtered_data)

(***************************************************************************)
(* C5: "Sonstige" is never in the eligible set, gets no seats and appears  *)
(* in no coalition.                                                        *)
(***************************************************************************)
C5_SonstigeExcluded ==
    /\ Sonstige \notin KeySet(filtered_data)
    /\ Sonstige \notin KeySet(seat_distribution)
    /\ \A i \in 1..Len(coalitions) : Sonstige \notin Range(coalitions[i].parties)

(***************************************************************************)
(* C6: every coalition returned by calculate_majority_coalitions contains  *)
(* the anchor party CDU/CSU.                                               *)
(***************************************************************************)
C6_AnchorInEveryCoalition ==
    \A i \in 1..Len(coalitions) : CDU_CSU \in Range(coalitions[i].parties)

C8_NeverFailsAndSaves ==
    /\ pc # "failed"
    /\ error = "none"
    /\ pc = "done" => (data_json = <<lametric_json>> /\ lametric_json.frames # <<>>)

(***************************************************************************)
(* C9: format_for_lametric renders the first min(k, 10) of its k >= 1      *)
(* coalitions in input order and nothing else: there are min(k, 10)        *)
(* "Gesamt:" frames, the j-th one preceded by the segments of the j-th     *)
(* coalition's displayed names and followed by its "<seats> Sitze" frame,  *)
(* which ends the coalition's block; all frames of the block carry the     *)
(* icon str(ICON_IDS[j-1]); the icon warning branch is never taken.        *)
(***************************************************************************)
C9_FirstTenRendered ==
    (AfterFormat /\ coalitions # <<>>) =>
        LET F == lametric_json.frames
            n == Min(Len(coalitions), 10)
            g == GesamtAt
            first(j) == IF j = 1 THEN 1 ELSE g[j - 1] + 2
        IN  /\ Len(g) = n
            /\ Len(F) = g[n] + 1
            /\ \A j \in 1..n :
                  /\ F[g[j] + 1].text = Str(coalitions[j].seats) \o Sitze
                  /\ first(j) < g[j]
                  /\ Concat([i \in 1..(g[j] - first(j)) |-> F[first(j) + i - 1].text])
                       = Join(<<" ", "+", " ">>,
                              [m \in 1..Len(coalitions[j].parties) |->
                                  Shown(coalitions[j].parties[m])])
                  /\ \A i \in first(j)..(g[j] + 1) : F[i].icon = Str(ICON_IDS[j])
            /\ ~icon_warning

\* more than 10 coalitions were handed to the formatter
C9_Witness == AfterFormat /\ Len(coalitions) > 10

(***************************************************************************)
(* C10: for an eligible set with positive total the run yields the single  *)
(* "Keine Mehrh." frame exactly when the set has fewer than 2 parties:     *)
(* with 2 or more the rounded seats sum to at least 316 and the coalition  *)
(* of all eligible parties is reported; a single party holds all 630 seats *)
(* and no coalition is reported.                                           *)
(***************************************************************************)
C10_NoMajorityIffFewerThanTwo ==
    (AfterFormat /\ Sum(Values(filtered_data)) > 0) =>
        /\ lametric_json.frames = NoMajorityFrames <=> Len(filtered_data) < 2
        /\ Len(filtered_data) >= 2 =>
              /\ Sum(Values(seat_distribution)) >= 316
              /\ \E i \in 1..Len(coalitions) :
                    coalitions[i].parties = Keys(filtered_data)
        /\ Len(filtered_data) = 1 =>
              /\ seat_distribution[1].v = 630
              /\ coalitions = <<>>

\* a single eligible party with all 630 seats, reported as no majority
C10_Witness ==
    /\ pc = "done"
    /\ Len(filtered_data) = 1
    /\ seat_distribution[1].v = 630
    /\ data_json = << [frames |-> NoMajorityFrames] >>

====
